---- MODULE Spec2Model ----
(***************************************************************************)
(* Model of the convertify conversion engine (src/converter.py):           *)
(* DocxReader, PdfReader, MarkdownWriter and DocumentConverter.            *)
(*                                                                         *)
(* Text is modelled as a sequence of one-character strings, so that the    *)
(* wrapping, trimming and joining the readers do is computed character by  *)
(* character.  Lengths are in characters; PDF coordinates are integers     *)
(* (tenths of a point), which keeps "height * 0.5" exact.                  *)
(***************************************************************************)
EXTENDS Integers, Sequences, FiniteSets, TLC

VARIABLES
    \* ---- DocxReader.read (SpecDocx) ----
    doc,            \* doc.paragraphs of the document being read
    content,        \* the local `content` accumulated by DocxReader.read
    run_outs,       \* outputs of _process_run for the paragraph last processed
    para_outs,      \* outputs of _process_paragraph, in paragraph order
    docx_result,    \* value returned by DocxReader.read (NoValue before)
    docx_pc,        \* position in DocxReader.read: "loop", "done" or "idle"
    \* ---- PdfReader.read (SpecPdf) ----
    pages,          \* pdf.pages: a sequence of pages, each a sequence of words
    font_sizes,     \* self.font_sizes
    header_sizes,   \* self.header_sizes
    all_elements,   \* the local `all_elements` of PdfReader.read
    page_no,        \* page_number of the page in the second pass
    word_no,        \* number of words of that page already grouped
    elements,       \* `elements` of _extract_text_elements
    current_line_y, \* `current_line_y` of _extract_text_elements
    current_line_elements,  \* `current_line_elements`, same function
    elem_no,        \* number of elements _elements_to_markdown has consumed
    markdown_lines, \* `markdown_lines` of _elements_to_markdown
    current_line,   \* `current_line` of _elements_to_markdown
    pdf_result,     \* value returned by PdfReader.read (NoValue before)
    pdf_pc,         \* "survey", "words", "emit", "done" or "idle"
    \* ---- DocumentConverter (Spec) ----
    readers,        \* self.readers: extension key -> reader class
    writers,        \* self.writers: extension key -> writer class
    files,          \* the output files: path -> [exists, data]
    reader,         \* font_sizes / header_sizes of the PdfReader instance
                    \* most recently constructed by convert
    last,           \* what the most recent convert call did and how it ended
    converted,      \* {[input, text]}: the text each successful convert wrote
    \* ---- two concurrent convert calls in their write (SpecConc) ----
    call_path,      \* call -> its output_path
    call_text,      \* call -> the content its reader returned
    call_pc,        \* call -> "ready", "writing" or "done"
    call_off,       \* call -> position of its file object (chunks written)
    finished,       \* the calls whose write has completed, in that order
    overlapped      \* a call opened the file while the other had it open

docxVars == <<doc, content, run_outs, para_outs, docx_result, docx_pc>>

pdfVars == <<pages, font_sizes, header_sizes, all_elements, page_no, word_no,
             elements, current_line_y, current_line_elements, elem_no,
             markdown_lines, current_line, pdf_result, pdf_pc>>

convVars == <<readers, writers, files, reader, last, converted>>

concVars == <<call_path, call_text, call_pc, call_off, finished, overlapped>>

vars == <<docxVars, pdfVars, convVars, concVars>>

IdleConc ==
    /\ call_path = <<>> /\ call_text = <<>> /\ call_pc = <<>>
    /\ call_off = <<>> /\ finished = <<>> /\ overlapped = FALSE

IdleConv ==
    /\ readers = <<>> /\ writers = <<>> /\ files = <<>>
    /\ reader = [font_sizes |-> <<>>, header_sizes |-> {}]
    /\ last = <<>> /\ converted = {}

IdlePdf ==
    /\ pages = <<>> /\ font_sizes = <<>> /\ header_sizes = {}
    /\ all_elements = <<>> /\ page_no = 0 /\ word_no = 0
    /\ elements = <<>> /\ current_line_y = -1
    /\ current_line_elements = <<>> /\ elem_no = 0
    /\ markdown_lines = <<>> /\ current_line = <<>>
    /\ pdf_result = "<none>" /\ pdf_pc = "idle"

IdleDocx ==
    /\ doc = <<>> /\ content = <<>> /\ run_outs = <<>> /\ para_outs = <<>>
    /\ docx_result = "<none>" /\ docx_pc = "idle"

NoValue == "<none>"

(***************************************************************************)
(* Text helpers (Python str operations used by the code).                  *)
(***************************************************************************)
RECURSIVE Cat(_)
\* "".join(parts): parts is a sequence of texts
Cat(parts) ==
    IF parts = <<>> THEN <<>> ELSE Head(parts) \o Cat(Tail(parts))

\* c * n for a one-character string c
Rep(c, n) == [i \in 1..n |-> c]

\* characters str.strip() removes
Whitespace == {" ", "\n", "\t"}

RECURSIVE LStrip(_)
LStrip(s) ==
    IF s # <<>> /\ Head(s) \in Whitespace THEN LStrip(Tail(s)) ELSE s

RECURSIVE RStrip(_)
RStrip(s) ==
    IF s # <<>> /\ s[Len(s)] \in Whitespace
    THEN RStrip(SubSeq(s, 1, Len(s) - 1)) ELSE s

\* str.strip()
Strip(s) == RStrip(LStrip(s))

UpperLetters == <<"A","B","C","D","E","F","G","H","I","J","K","L","M",
                  "N","O","P","Q","R","S","T","U","V","W","X","Y","Z">>
LowerLetters == <<"a","b","c","d","e","f","g","h","i","j","k","l","m",
                  "n","o","p","q","r","s","t","u","v","w","x","y","z">>

LowerChar(c) ==
    IF \E i \in 1..26 : UpperLetters[i] = c
    THEN LowerLetters[CHOOSE i \in 1..26 : UpperLetters[i] = c]
    ELSE c

\* str.lower()
Lower(s) == [i \in 1..Len(s) |-> LowerChar(s[i])]

\* str.startswith(prefix)
StartsWith(s, prefix) ==
    Len(s) >= Len(prefix) /\ SubSeq(s, 1, Len(prefix)) = prefix

Digits == <<"0","1","2","3","4","5","6","7","8","9">>

\* str.isdigit() on one character (ASCII decimal digits)
IsDigit(c) == \E i \in 1..10 : Digits[i] = c

\* int(c) for a decimal digit character
IntOf(c) == (CHOOSE i \in 1..10 : Digits[i] = c) - 1

(***************************************************************************)
(* DocxReader                                                              *)
(***************************************************************************)
\* Variant of ProcessRun: the underline wrap is applied first, not last.
ProcessRunUnderlineFirst(run) ==
    LET t0 == run.text
        t1 == IF run.underline THEN <<"_","_">> \o t0 \o <<"_","_">> ELSE t0
        t2 == IF run.bold THEN <<"*","*">> \o t1 \o <<"*","*">> ELSE t1
        t3 == IF run.italic THEN <<"*">> \o t2 \o <<"*">> ELSE t2
    IN  t3

\* DocxReader._process_run
ProcessRun(run) ==
    LET t0 == run.text
        t1 == IF run.bold THEN <<"*","*">> \o t0 \o <<"*","*">> ELSE t0
        t2 == IF run.italic THEN <<"*">> \o t1 \o <<"*">> ELSE t1
        t3 == IF run.underline THEN <<"_","_">> \o t2 \o <<"_","_">> ELSE t2
    IN  t3

\* paragraph.text: the text of the paragraph's runs, concatenated
ParagraphText(p) == Cat([i \in 1..Len(p.runs) |-> p.runs[i].text])

\* the generator `self._process_run(run) for run in paragraph.runs`
RunOutputs(p) == [i \in 1..Len(p.runs) |-> ProcessRun(p.runs[i])]

\* Variant of ProcessParagraph: the style name is not lower-cased.
ProcessParagraphNoLower(p) ==
    IF Strip(ParagraphText(p)) = <<>> THEN <<"\n">>
    ELSE LET style == p.style
             body  == Cat(RunOutputs(p))
         IN  IF StartsWith(style, <<"h","e","a","d","i","n","g">>)
                /\ IsDigit(style[Len(style)])
             THEN Rep("#", IntOf(style[Len(style)])) \o <<" ">> \o body
                  \o <<"\n","\n">>
             ELSE IF StartsWith(style, <<"l","i","s","t">>)
             THEN <<"*"," ">> \o body \o <<"\n">>
             ELSE body \o <<"\n","\n">>

\* Variant of ProcessParagraph: an empty paragraph emits a blank line.
ProcessParagraphBlankLine(p) ==
    IF Strip(ParagraphText(p)) = <<>> THEN <<"\n","\n">>
    ELSE LET style == Lower(p.style)
             body  == Cat(RunOutputs(p))
         IN  IF StartsWith(style, <<"h","e","a","d","i","n","g">>)
                /\ IsDigit(style[Len(style)])
             THEN Rep("#", IntOf(style[Len(style)])) \o <<" ">> \o body
                  \o <<"\n","\n">>
             ELSE IF StartsWith(style, <<"l","i","s","t">>)
             THEN <<"*"," ">> \o body \o <<"\n">>
             ELSE body \o <<"\n","\n">>

\* DocxReader._process_paragraph
ProcessParagraph(p) ==
    IF Strip(ParagraphText(p)) = <<>> THEN <<"\n">>
    ELSE LET style == Lower(p.style)
             body  == Cat(RunOutputs(p))
         IN  IF StartsWith(style, <<"h","e","a","d","i","n","g">>)
                /\ IsDigit(style[Len(style)])
             THEN Rep("#", IntOf(style[Len(style)])) \o <<" ">> \o body
                  \o <<"\n","\n">>
             ELSE IF StartsWith(Lower(p.style), <<"l","i","s","t">>)
             THEN <<"*"," ">> \o body \o <<"\n">>
             ELSE body \o <<"\n","\n">>

\* DocxReader.read on a document that opens and iterates without error
DocxRead(d) == Strip(Cat([i \in 1..Len(d) |-> ProcessParagraph(d[i])]))

(***************************************************************************)
(* SpecDocx: DocxReader.read applied to bounded documents.                 *)
(***************************************************************************)
MaxRuns  == 2     \* runs per paragraph in the one-paragraph documents
MaxParas == 3     \* paragraphs per document in the multi-paragraph documents

RunTexts == { <<"X">>, <<" ">> }

Runs == [text : RunTexts, bold : BOOLEAN, italic : BOOLEAN,
         underline : BOOLEAN]

Plain(t) == [text |-> t, bold |-> FALSE, italic |-> FALSE,
             underline |-> FALSE]

SeqsUpTo(S, n) == UNION { [1..k -> S] : k \in 0..n }

StyleHeading2    == <<"H","e","a","d","i","n","g"," ","2">>
StyleHeadingCap1 == <<"H","E","A","D","I","N","G"," ","1">>
StyleHeading     == <<"H","e","a","d","i","n","g">>
StyleHeading0    == <<"H","e","a","d","i","n","g"," ","0">>
StyleListBullet  == <<"L","i","s","t"," ","B","u","l","l","e","t">>
StyleList2       == <<"L","i","s","t"," ","2">>
StyleNormal      == <<"N","o","r","m","a","l">>

Styles == { StyleHeading2, StyleHeadingCap1, StyleHeading, StyleHeading0,
            StyleListBullet, StyleList2, StyleNormal }

TitleText == <<"T","i","t","l","e">>

ParaTitle == [style |-> StyleHeading2, runs |-> << Plain(TitleText) >>]
ParaNoRuns == [style |-> StyleNormal, runs |-> <<>>]
ParaBlank == [style |-> StyleHeading2, runs |-> << Plain(<<" ">>) >>]
ParaBold  == [style |-> StyleNormal,
              runs |-> << [text |-> <<"X">>, bold |-> TRUE, italic |-> FALSE,
                           underline |-> FALSE] >>]
ParaList  == [style |-> StyleListBullet, runs |-> << Plain(<<"X">>) >>]

ParaPool == { ParaTitle, ParaNoRuns, ParaBlank, ParaBold, ParaList }

\* every one-paragraph document over Styles and Runs, and every document of
\* up to MaxParas paragraphs of ParaPool
DocxInputs ==
    { << [style |-> s, runs |-> rs] >> : s \in Styles,
                                         rs \in SeqsUpTo(Runs, MaxRuns) }
    \cup SeqsUpTo(ParaPool, MaxParas)

InitDocx ==
    /\ IdlePdf /\ IdleConv /\ IdleConc
    /\ doc \in DocxInputs
    /\ content = <<>>
    /\ run_outs = <<>>
    /\ para_outs = <<>>
    /\ docx_result = NoValue
    /\ docx_pc = "loop"

\* one iteration of `for paragraph in doc.paragraphs`
DocxLoop ==
    /\ docx_pc = "loop"
    /\ Len(para_outs) < Len(doc)
    /\ LET p == doc[Len(para_outs) + 1] IN
        /\ content' = content \o ProcessParagraph(p)
        /\ para_outs' = Append(para_outs, ProcessParagraph(p))
        /\ run_outs' = IF Strip(ParagraphText(p)) = <<>> THEN <<>>
                       ELSE RunOutputs(p)
    /\ UNCHANGED <<doc, docx_result, docx_pc>>
    /\ UNCHANGED <<pdfVars, convVars, concVars>>

\* `return content.strip()`
DocxReturn ==
    /\ docx_pc = "loop"
    /\ Len(para_outs) = Len(doc)
    /\ docx_result' = Strip(content)
    /\ docx_pc' = "done"
    /\ UNCHANGED <<doc, content, run_outs, para_outs>>
    /\ UNCHANGED <<pdfVars, convVars, concVars>>

NextDocx == DocxLoop \/ DocxReturn

SpecDocx == InitDocx /\ [][NextDocx]_vars

(***************************************************************************)
(* Properties of DocxReader (checked under SpecDocx)                       *)
(***************************************************************************)
\* the paragraph last processed by the loop
LastPara == doc[Len(para_outs)]

LastParaNonEmpty ==
    /\ Len(para_outs) >= 1
    /\ \E j \in 1..Len(LastPara.runs) :
          \E k \in 1..Len(LastPara.runs[j].text) :
              LastPara.runs[j].text[k] \notin Whitespace

Mark(flag, m) == IF flag THEN m ELSE <<>>

\* C4: every run output is the run text wrapped, from the inside out, in
\* ** (if bold), then * (if italic), then __ (if underline); with all three
\* flags set it is exactly __***X***__ .
C4_RunWrapOrder ==
    LastParaNonEmpty =>
        /\ Len(run_outs) = Len(LastPara.runs)
        /\ \A j \in 1..Len(run_outs) :
              LET r == LastPara.runs[j] IN
              /\ run_outs[j] =
                     Mark(r.underline, <<"_","_">>) \o Mark(r.italic, <<"*">>)
                     \o Mark(r.bold, <<"*","*">>) \o r.text
                     \o Mark(r.bold, <<"*","*">>) \o Mark(r.italic, <<"*">>)
                     \o Mark(r.underline, <<"_","_">>)
              /\ (r.bold /\ r.italic /\ r.underline) =>
                     run_outs[j] = <<"_","_","*","*","*">> \o r.text
                                   \o <<"*","*","*","_","_">>

\* a run with text X and all three flags has been rendered as __***X***__
C4_Witness ==
    /\ LastParaNonEmpty
    /\ \E j \in 1..Len(run_outs) :
          /\ LastPara.runs[j] = [text |-> <<"X">>, bold |-> TRUE,
                                 italic |-> TRUE, underline |-> TRUE]
          /\ run_outs[j] = <<"_","_","*","*","*","X","*","*","*","_","_">>

LowerStyle == Lower(LastPara.style)

StyleIsHeadingWithDigit ==
    /\ Len(LowerStyle) >= 7
    /\ SubSeq(LowerStyle, 1, 7) = <<"h","e","a","d","i","n","g">>
    /\ LowerStyle[Len(LowerStyle)] \in
          {"0","1","2","3","4","5","6","7","8","9"}

StyleIsList ==
    /\ Len(LowerStyle) >= 4
    /\ SubSeq(LowerStyle, 1, 4) = <<"l","i","s","t">>

HashesOf(c) ==
    CASE c = "0" -> <<>>
      [] c = "1" -> <<"#">>
      [] c = "2" -> <<"#","#">>
      [] c = "3" -> <<"#","#","#">>
      [] OTHER   -> Rep("#", IntOf(c))

\* C5: a non-empty paragraph with run output `content` is emitted as
\* d hashes, a space, content and a blank line when its lower-cased style
\* starts with "heading" and ends in the digit d; else as "* " content and
\* one newline when the style starts with "list"; else as content and a
\* blank line (so "Heading" without a digit is a plain paragraph, and
\* "Heading 2" / "Title" gives "## Title" and a blank line).
C5_ParagraphShape ==
    LastParaNonEmpty =>
        LET body == Cat(run_outs)
            out  == para_outs[Len(para_outs)]
        IN  /\ StyleIsHeadingWithDigit =>
                  out = HashesOf(LowerStyle[Len(LowerStyle)]) \o <<" ">>
                        \o body \o <<"\n","\n">>
            /\ (~StyleIsHeadingWithDigit /\ StyleIsList) =>
                  out = <<"*"," ">> \o body \o <<"\n">>
            /\ (~StyleIsHeadingWithDigit /\ ~StyleIsList) =>
                  out = body \o <<"\n","\n">>
            /\ LastPara = ParaTitle =>
                  out = <<"#","#"," ","T","i","t","l","e","\n","\n">>

\* the paragraph "Heading 2" / "Title" has been emitted as "## Title\n\n"
C5_Witness ==
    /\ LastParaNonEmpty
    /\ LastPara = ParaTitle
    /\ para_outs[Len(para_outs)] =
          <<"#","#"," ","T","i","t","l","e","\n","\n">>

\* a paragraph whose trimmed text is empty
IsEmptyPara(p) ==
    \A j \in 1..Len(p.runs) :
        \A k \in 1..Len(p.runs[j].text) : p.runs[j].text[k] \in Whitespace

RECURSIVE TotalLen(_)
TotalLen(parts) ==
    IF parts = <<>> THEN 0 ELSE Len(Head(parts)) + TotalLen(Tail(parts))

\* number of leading characters of `content` that read trims away
LeadTrim == Len(content) - Len(LStrip(content))

MaxOf(a, b) == IF a >= b THEN a ELSE b
MinOf(a, b) == IF a <= b THEN a ELSE b

\* the part of the returned text that comes from paragraph i: the slice of
\* `content` paragraph i appended, cut to what the final trim keeps
Contribution(i) ==
    LET lo == TotalLen(SubSeq(para_outs, 1, i - 1)) + 1
        hi == TotalLen(SubSeq(para_outs, 1, i))
    IN  SubSeq(content, MaxOf(lo, LeadTrim + 1),
               MinOf(hi, LeadTrim + Len(docx_result)))

HasText(s) == \E k \in 1..Len(s) : s[k] \notin Whitespace

\* C6 as claimed: every empty paragraph, at any position, contributes
\* exactly one "\n" to the text DocxReader.read returns.
C6_EmptyParagraphAnywhere ==
    docx_pc = "done" =>
        \A i \in 1..Len(doc) :
            IsEmptyPara(doc[i]) => Contribution(i) = <<"\n">>

\* C6 amended: an empty paragraph's own output is exactly "\n"; the
\* returned text keeps that one "\n" when non-whitespace text is emitted
\* both before and after it, and keeps nothing of it otherwise (the final
\* trim removes it at the start and at the end of the document).
C6_EmptyParagraphTrimmed ==
    /\ \A i \in 1..Len(para_outs) :
          IsEmptyPara(doc[i]) => para_outs[i] = <<"\n">>
    /\ docx_pc = "done" =>
          /\ docx_result = SubSeq(content, LeadTrim + 1,
                                  LeadTrim + Len(docx_result))
          /\ \A i \in 1..Len(doc) :
                IsEmptyPara(doc[i]) =>
                    Contribution(i) =
                        IF /\ \E j \in 1..(i - 1) : HasText(para_outs[j])
                           /\ \E j \in (i + 1)..Len(doc) : HasText(para_outs[j])
                        THEN <<"\n">> ELSE <<>>

\* a document read to the end with an empty paragraph kept between two
\* paragraphs of text and another one trimmed away at the end
C6_Witness ==
    /\ docx_pc = "done"
    /\ Len(doc) = 3
    /\ IsEmptyPara(doc[2]) /\ Contribution(2) = <<"\n">>
    /\ ~IsEmptyPara(doc[1]) /\ ~IsEmptyPara(doc[3])

(***************************************************************************)
(* PdfReader                                                               *)
(*                                                                         *)
(* A word is what page.extract_words yields: text, size, fontname,         *)
(* stroking_color, top and bottom.  page.chars is the characters of the    *)
(* page's words, each with its word's size (extract_words splits words     *)
(* where an extra attribute changes).  x0 and x1 only feed the left and    *)
(* width fields, which nothing reads, and are left out.                    *)
(***************************************************************************)
\* Python's None where a number is expected (a size or a top coordinate,
\* which are never negative)
None == -1

\* None where a colour tuple is expected
NoColor == <<>>

SetOfSeq(q) == { q[i] : i \in 1..Len(q) }

RECURSIVE SortDescending(_)
\* sorted(keys, reverse=True)
SortDescending(S) ==
    IF S = {} THEN <<>>
    ELSE LET m == CHOOSE x \in S : \A y \in S : y <= x
         IN  <<m>> \o SortDescending(S \ {m})

RECURSIVE SortAscending(_)
SortAscending(S) ==
    IF S = {} THEN <<>>
    ELSE LET m == CHOOSE x \in S : \A y \in S : y >= x
         IN  <<m>> \o SortAscending(S \ {m})

\* keys of the histogram `sizes`: the sizes of the characters of all pages
\* that are not None
SizeKeys(pp) ==
    UNION { { pp[i][j].size : j \in 1..Len(pp[i]) } : i \in 1..Len(pp) }
    \ {None}

\* Variant of AnalyzeFontSizes: the distinct sizes are sorted ascending.
AnalyzeFontSizesAscending(pp) ==
    LET unique_sizes == SortAscending(SizeKeys(pp))
    IN  [header_sizes |-> SetOfSeq(SubSeq(unique_sizes, 1,
                                          IF Len(unique_sizes) < 3
                                          THEN Len(unique_sizes) ELSE 3)),
         font_sizes   |-> unique_sizes]

\* Variant of AnalyzeFontSizes: the histogram is shared by all instances, so
\* the sizes of the document read before are still in it.
AnalyzeFontSizesCarryOver(pp) ==
    LET unique_sizes ==
            SortDescending(SizeKeys(pp) \cup SetOfSeq(reader.font_sizes))
    IN  [header_sizes |-> SetOfSeq(SubSeq(unique_sizes, 1,
                                          IF Len(unique_sizes) < 3
                                          THEN Len(unique_sizes) ELSE 3)),
         font_sizes   |-> unique_sizes]

\* PdfReader._analyze_font_sizes: the values it assigns to self.header_sizes
\* and self.font_sizes
AnalyzeFontSizes(pp) ==
    LET unique_sizes == SortDescending(SizeKeys(pp))
    IN  [header_sizes |-> SetOfSeq(SubSeq(unique_sizes, 1,
                                          IF Len(unique_sizes) < 3
                                          THEN Len(unique_sizes) ELSE 3)),
         font_sizes   |-> unique_sizes]

\* list.index(x) + 1
IndexOf(q, x) == CHOOSE i \in 1..Len(q) : q[i] = x /\ \A j \in 1..(i - 1) : q[j] # x

\* PdfReader._get_header_level
GetHeaderLevel(hs, fs, font_size) ==
    IF font_size \in hs THEN IndexOf(fs, font_size) ELSE 0

RECURSIVE Contains(_, _)
\* `sub in s` for strings
Contains(s, sub) ==
    IF Len(s) < Len(sub) THEN FALSE
    ELSE StartsWith(s, sub) \/ Contains(Tail(s), sub)

Black == <<0, 0, 0>>

\* the TextElement built for a word, with is_header set (lines 142-155)
MakeElement(word, hs) ==
    [text      |-> word.text,
     font_size |-> word.size,
     bold      |-> Contains(word.fontname, <<"B","o","l","d">>)
                   \/ word.stroking_color = Black,
     italic    |-> Contains(word.fontname, <<"I","t","a","l","i","c">>),
     is_header |-> word.size \in hs,
     top       |-> word.top,
     height    |-> word.bottom - word.top]

\* TextElement('\n', 0): the line-break and page-break marker
BreakMarker ==
    [text |-> <<"\n">>, font_size |-> 0, bold |-> FALSE, italic |-> FALSE,
     is_header |-> FALSE, top |-> 0, height |-> 0]

Abs(x) == IF x < 0 THEN -x ELSE x

\* Variant of LineStep: the comparison is >= instead of >.
LineStepNotStrict(ls, e) ==
    LET y == IF ls.current_line_y = None THEN e.top ELSE ls.current_line_y
    IN  IF 2 * Abs(e.top - y) >= e.height
        THEN [elements |-> IF ls.current_line_elements # <<>>
                           THEN ls.elements \o ls.current_line_elements
                                \o <<BreakMarker>>
                           ELSE ls.elements,
              current_line_y |-> e.top,
              current_line_elements |-> <<e>>]
        ELSE [elements |-> ls.elements,
              current_line_y |-> y,
              current_line_elements |-> Append(ls.current_line_elements, e)]

\* one iteration of `for word in words` in _extract_text_elements, after the
\* element is built (lines 157-169); abs(d) > height * 0.5 is written
\* 2 * abs(d) > height
LineStep(ls, e) ==
    LET y == IF ls.current_line_y = None THEN e.top ELSE ls.current_line_y
    IN  IF 2 * Abs(e.top - y) > e.height
        THEN [elements |-> IF ls.current_line_elements # <<>>
                           THEN ls.elements \o ls.current_line_elements
                                \o <<BreakMarker>>
                           ELSE ls.elements,
              current_line_y |-> e.top,
              current_line_elements |-> <<e>>]
        ELSE [elements |-> ls.elements,
              current_line_y |-> y,
              current_line_elements |-> Append(ls.current_line_elements, e)]

RECURSIVE LineLoop(_, _, _)
LineLoop(ls, words, hs) ==
    IF words = <<>> THEN ls
    ELSE LineLoop(LineStep(ls, MakeElement(Head(words), hs)), Tail(words), hs)

\* PdfReader._extract_text_elements
ExtractTextElements(page, hs) ==
    LET ls == LineLoop([elements |-> <<>>, current_line_y |-> None,
                        current_line_elements |-> <<>>], page, hs)
    IN  ls.elements \o ls.current_line_elements

\* the text appended to current_line for a word element (lines 191-203)
RenderElement(e, hs, fs) ==
    IF e.is_header
    THEN Rep("#", GetHeaderLevel(hs, fs, e.font_size)) \o <<" ">> \o e.text
    ELSE IF e.bold /\ e.italic THEN <<"*","*","*">> \o e.text \o <<"*","*","*">>
    ELSE IF e.bold THEN <<"*","*">> \o e.text \o <<"*","*">>
    ELSE IF e.italic THEN <<"*">> \o e.text \o <<"*">>
    ELSE e.text

\* one iteration of `for element in elements` in _elements_to_markdown
EmitStep(ms, e, hs, fs) ==
    IF e.text = <<"\n">>
    THEN IF ms.current_line # <<>>
         THEN [markdown_lines |->
                   IF Strip(Cat(ms.current_line)) # <<>>
                   THEN Append(ms.markdown_lines, Cat(ms.current_line))
                   ELSE ms.markdown_lines,
               current_line |-> <<>>]
         ELSE ms
    ELSE [markdown_lines |-> ms.markdown_lines,
          current_line |-> Append(ms.current_line, RenderElement(e, hs, fs))]

RECURSIVE EmitLoop(_, _, _, _)
EmitLoop(ms, es, hs, fs) ==
    IF es = <<>> THEN ms
    ELSE EmitLoop(EmitStep(ms, Head(es), hs, fs), Tail(es), hs, fs)

RECURSIVE JoinLines(_)
\* '\n\n'.join(lines)
JoinLines(lines) ==
    IF lines = <<>> THEN <<>>
    ELSE IF Len(lines) = 1 THEN lines[1]
    ELSE lines[1] \o <<"\n","\n">> \o JoinLines(Tail(lines))

\* the tail of _elements_to_markdown (lines 207-213)
EmitFinish(ms) ==
    JoinLines(IF ms.current_line # <<>> /\ Strip(Cat(ms.current_line)) # <<>>
              THEN Append(ms.markdown_lines, Cat(ms.current_line))
              ELSE ms.markdown_lines)

\* PdfReader._elements_to_markdown
ElementsToMarkdown(es, hs, fs) ==
    EmitFinish(EmitLoop([markdown_lines |-> <<>>, current_line |-> <<>>],
                        es, hs, fs))

RECURSIVE CollectPages(_, _, _)
\* the second pass of PdfReader.read: all_elements after pages k..len
CollectPages(pp, k, hs) ==
    IF k > Len(pp) THEN <<>>
    ELSE ExtractTextElements(pp[k], hs)
         \o (IF k < Len(pp) THEN <<BreakMarker>> ELSE <<>>)
         \o CollectPages(pp, k + 1, hs)

\* PdfReader.read on a document whose pages all decode
PdfRead(pp) ==
    LET a == AnalyzeFontSizes(pp)
    IN  ElementsToMarkdown(CollectPages(pp, 1, a.header_sizes),
                           a.header_sizes, a.font_sizes)

(***************************************************************************)
(* SpecPdf: PdfReader.read applied to bounded documents.                   *)
(***************************************************************************)
MaxWords     == 5   \* words per document where the font sizes vary
MaxLineWords == 3   \* words per document where the geometry varies

FontArial      == <<"A","r","i","a","l">>
FontBold       == <<"A","r","i","a","l","-","B","o","l","d">>
FontItalic     == <<"A","r","i","a","l","-","I","t","a","l","i","c">>
FontBoldItalic == <<"A","r","i","a","l","-","B","o","l","d","I","t","a","l","i","c">>

\* font sizes of the documents, in tenths of a point; None is a character
\* without a size
FontSizes == {100, 120, 140, 180}

\* words that differ in font size only
SizeWords ==
    { [text |-> <<"a">>, size |-> z, fontname |-> FontArial,
       stroking_color |-> NoColor, top |-> 0, bottom |-> 100]
      : z \in FontSizes \cup {None} }

\* words that differ in position and height only: tops 0, 50, 60 and
\* heights 100, 120 (half heights 50 and 60)
GeometryWords ==
    { [text |-> <<"a">>, size |-> None, fontname |-> FontArial,
       stroking_color |-> NoColor, top |-> t, bottom |-> t + h]
      : t \in {0, 50, 60}, h \in {100, 120} }

\* words that differ in font name, stroke colour and text
FormatWords ==
    { [text |-> x, size |-> z, fontname |-> f, stroking_color |-> c,
       top |-> 0, bottom |-> 100]
      : x \in { <<"a">>, <<" ">> }, z \in {None, 120},
        f \in {FontArial, FontBold, FontItalic, FontBoldItalic},
        c \in {NoColor, Black} }

\* a word sequence as one page, or as two pages with the first word alone
\* on the first page
PagesOf(ws) ==
    { <<ws>> } \cup
    (IF Len(ws) >= 1 THEN { << <<ws[1]>>, Tail(ws) >> } ELSE {})

PdfInputs ==
    { <<>> }
    \cup UNION { PagesOf(ws) : ws \in SeqsUpTo(SizeWords, MaxWords) }
    \cup UNION { PagesOf(ws) : ws \in SeqsUpTo(GeometryWords, MaxLineWords) }
    \cup { <<ws>> : ws \in SeqsUpTo(FormatWords, 1) }

InitPdf ==
    /\ IdleDocx /\ IdleConv /\ IdleConc
    /\ pages \in PdfInputs
    /\ font_sizes = <<>>
    /\ header_sizes = {}
    /\ all_elements = <<>>
    /\ page_no = 0
    /\ word_no = 0
    /\ elements = <<>>
    /\ current_line_y = None
    /\ current_line_elements = <<>>
    /\ elem_no = 0
    /\ markdown_lines = <<>>
    /\ current_line = <<>>
    /\ pdf_result = NoValue
    /\ pdf_pc = "survey"

\* first pass: self._analyze_font_sizes(pdf.pages)
PdfSurvey ==
    /\ pdf_pc = "survey"
    /\ font_sizes' = AnalyzeFontSizes(pages).font_sizes
    /\ header_sizes' = AnalyzeFontSizes(pages).header_sizes
    /\ page_no' = IF pages = <<>> THEN 0 ELSE 1
    /\ pdf_pc' = IF pages = <<>> THEN "emit" ELSE "words"
    /\ UNCHANGED <<pages, all_elements, word_no, elements, current_line_y,
                   current_line_elements, elem_no, markdown_lines,
                   current_line, pdf_result>>
    /\ UNCHANGED <<docxVars, convVars, concVars>>

\* one iteration of `for word in words` on the current page
PdfWord ==
    /\ pdf_pc = "words"
    /\ word_no < Len(pages[page_no])
    /\ LET e  == MakeElement(pages[page_no][word_no + 1], header_sizes)
           ls == LineStep([elements |-> elements,
                           current_line_y |-> current_line_y,
                           current_line_elements |-> current_line_elements],
                          e)
       IN  /\ elements' = ls.elements
           /\ current_line_y' = ls.current_line_y
           /\ current_line_elements' = ls.current_line_elements
    /\ word_no' = word_no + 1
    /\ UNCHANGED <<pages, font_sizes, header_sizes, all_elements, page_no,
                   elem_no, markdown_lines, current_line, pdf_result, pdf_pc>>
    /\ UNCHANGED <<docxVars, convVars, concVars>>

\* end of _extract_text_elements for the current page (lines 171-175) and the
\* rest of the page's iteration in read (lines 224-227)
PdfEndPage ==
    /\ pdf_pc = "words"
    /\ word_no = Len(pages[page_no])
    /\ all_elements' = all_elements \o elements \o current_line_elements
                        \o (IF page_no < Len(pages) THEN <<BreakMarker>>
                            ELSE <<>>)
    /\ elements' = <<>>
    /\ current_line_y' = None
    /\ current_line_elements' = <<>>
    /\ word_no' = 0
    /\ page_no' = IF page_no < Len(pages) THEN page_no + 1 ELSE page_no
    /\ pdf_pc' = IF page_no < Len(pages) THEN "words" ELSE "emit"
    /\ UNCHANGED <<pages, font_sizes, header_sizes, elem_no, markdown_lines,
                   current_line, pdf_result>>
    /\ UNCHANGED <<docxVars, convVars, concVars>>

\* one iteration of `for element in elements` in _elements_to_markdown
PdfEmitElement ==
    /\ pdf_pc = "emit"
    /\ elem_no < Len(all_elements)
    /\ LET ms == EmitStep([markdown_lines |-> markdown_lines,
                           current_line |-> current_line],
                          all_elements[elem_no + 1], header_sizes, font_sizes)
       IN  /\ markdown_lines' = ms.markdown_lines
           /\ current_line' = ms.current_line
    /\ elem_no' = elem_no + 1
    /\ UNCHANGED <<pages, font_sizes, header_sizes, all_elements, page_no,
                   word_no, elements, current_line_y, current_line_elements,
                   pdf_result, pdf_pc>>
    /\ UNCHANGED <<docxVars, convVars, concVars>>

\* the end of _elements_to_markdown and the return of read
PdfReturn ==
    /\ pdf_pc = "emit"
    /\ elem_no = Len(all_elements)
    /\ pdf_result' = EmitFinish([markdown_lines |-> markdown_lines,
                                 current_line |-> current_line])
    /\ pdf_pc' = "done"
    /\ UNCHANGED <<pages, font_sizes, header_sizes, all_elements, page_no,
                   word_no, elements, current_line_y, current_line_elements,
                   elem_no, markdown_lines, current_line>>
    /\ UNCHANGED <<docxVars, convVars, concVars>>

NextPdf == PdfSurvey \/ PdfWord \/ PdfEndPage \/ PdfEmitElement \/ PdfReturn

SpecPdf == InitPdf /\ [][NextPdf]_vars

\* the stepwise run and the function PdfRead compute the same text
PdfStepsAgree == pdf_pc = "done" => pdf_result = PdfRead(pages)

(***************************************************************************)
(* Properties of PdfReader (checked under SpecPdf)                         *)
(***************************************************************************)
\* the distinct font sizes observed on the characters of the whole document
ObservedSizes ==
    { z \in FontSizes :
        \E i \in 1..Len(pages) : \E j \in 1..Len(pages[i]) :
            pages[i][j].size = z }

\* position of size z among the observed sizes, largest first
RankOf(z) == 1 + Cardinality({ y \in ObservedSizes : y > z })

\* number of words of the document with font size z
WordsOfSize(z) ==
    Cardinality({ ij \in (1..Len(pages)) \X (1..(MaxWords + MaxLineWords)) :
                    /\ ij[2] <= Len(pages[ij[1]])
                    /\ pages[ij[1]][ij[2]].size = z })

\* a word element has just been rendered by _elements_to_markdown
WordJustRendered ==
    /\ pdf_pc = "emit"
    /\ elem_no >= 1
    /\ all_elements[elem_no].text # <<"\n">>

RenderedElement == all_elements[elem_no]
RenderedText == current_line[Len(current_line)]

\* the heading level the rendered text shows: k when the text is k hashes, a
\* space and the word's text, 0 when it has no heading prefix
ShownLevel ==
    IF \E k \in 1..Len(RenderedText) :
          RenderedText = Rep("#", k) \o <<" ">> \o RenderedElement.text
    THEN CHOOSE k \in 1..Len(RenderedText) :
          RenderedText = Rep("#", k) \o <<" ">> \o RenderedElement.text
    ELSE 0

\* C2: a word is rendered with a heading prefix only if its font size is
\* one of the three largest distinct sizes of the whole document, and then
\* with level 1 + its index among the distinct sizes in descending order;
\* the largest size is rendered at level 1, only levels 1..3 occur, and a
\* size ranked fourth or lower is never rendered as a heading.
C2_HeaderLevels ==
    WordJustRendered =>
        LET z == RenderedElement.font_size IN
        /\ ShownLevel \in 0..3
        /\ ShownLevel >= 1 =>
              /\ z \in ObservedSizes
              /\ RankOf(z) <= 3
              /\ ShownLevel = RankOf(z)
        /\ (z \in ObservedSizes /\ RankOf(z) = 1) => ShownLevel = 1
        /\ (z \notin ObservedSizes \/ RankOf(z) >= 4) => ShownLevel = 0

\* a word whose size ranks fourth, though two words have that size and one
\* word each has the three larger sizes, has been rendered without prefix
C2_Witness ==
    /\ WordJustRendered
    /\ RenderedElement.font_size \in ObservedSizes
    /\ RankOf(RenderedElement.font_size) = 4
    /\ WordsOfSize(RenderedElement.font_size) = 2
    /\ RenderedText = RenderedElement.text

\* C3: within a page, a word that follows another starts a new line (the
\* current line is flushed with a line-break marker and the word's top
\* becomes the reference) if and only if abs(top - reference) is strictly
\* greater than half the word's height, the reference being the top of the
\* first word of the current line; otherwise it joins the current line.  A
\* page's first word opens a line with its own top as reference.
C3_LineGrouping ==
    [][ PdfWord =>
          LET w == pages[page_no][word_no + 1]
              joined  == /\ elements' = elements
                         /\ current_line_y' = current_line_y
                         /\ Len(current_line_elements') =
                               Len(current_line_elements) + 1
                         /\ SubSeq(current_line_elements', 1,
                                   Len(current_line_elements)) =
                               current_line_elements
              started == /\ elements' = elements \o current_line_elements
                                        \o <<BreakMarker>>
                         /\ current_line_y' = w.top
                         /\ Len(current_line_elements') = 1
          IN  /\ current_line_elements'[Len(current_line_elements')].top = w.top
              /\ current_line_elements'[Len(current_line_elements')].text = w.text
              /\ IF current_line_elements = <<>>
                 THEN /\ elements' = elements
                      /\ current_line_y' = w.top
                      /\ Len(current_line_elements') = 1
                 ELSE /\ current_line_y = current_line_elements[1].top
                      /\ started <=>
                           (2 * Abs(w.top - current_line_elements[1].top)
                              > w.bottom - w.top)
                      /\ joined <=>
                           (2 * Abs(w.top - current_line_elements[1].top)
                              <= w.bottom - w.top)
      ]_vars

\* a word of height 100 whose top is exactly 50 from the reference has
\* joined the current line
C3_Witness ==
    /\ pdf_pc = "words"
    /\ Len(current_line_elements) >= 2
    /\ current_line_elements[2].height = 100
    /\ Abs(current_line_elements[2].top - current_line_elements[1].top) = 50
    /\ current_line_y = current_line_elements[1].top

(***************************************************************************)
(* MarkdownWriter and DocumentConverter                                    *)
(***************************************************************************)
\* index of the last "." of a file name, 0 if there is none
LastDot(name) ==
    IF \E i \in 1..Len(name) : name[i] = "."
    THEN CHOOSE i \in 1..Len(name) :
            name[i] = "." /\ \A j \in (i + 1)..Len(name) : name[j] # "."
    ELSE 0

\* Path(p).suffix for a path of one component: the name from its last dot,
\* unless the dot is the first or the last character
Suffix(name) ==
    IF 1 < LastDot(name) /\ LastDot(name) < Len(name)
    THEN SubSeq(name, LastDot(name), Len(name)) ELSE <<>>

\* Path(p).suffix.lower()
ExtOf(path) == Lower(Suffix(path))

ExtDocx == <<".","d","o","c","x">>
ExtPdf  == <<".","p","d","f">>
ExtMd   == <<".","m","d">>
ExtTxt  == <<".","t","x","t">>

\* Variant of CheckFormats: the output format is validated first.
CheckFormatsOutputFirst(input_ext, output_ext) ==
    IF output_ext \notin DOMAIN writers THEN "UnsupportedOutputFormat"
    ELSE IF input_ext \notin DOMAIN readers THEN "UnsupportedInputFormat"
    ELSE "ok"

\* the two validations of convert (lines 269-275); the ValueError raised is
\* named by its message
CheckFormats(input_ext, output_ext) ==
    IF input_ext \notin DOMAIN readers THEN "UnsupportedInputFormat"
    ELSE IF output_ext \notin DOMAIN writers THEN "UnsupportedOutputFormat"
    ELSE "ok"

\* PdfReader.__init__
PdfReaderInit == [font_sizes |-> <<>>, header_sizes |-> {}]

\* an input file: a DOCX document, a PDF document whose pages may fail to
\* decode (bad_chars: page.chars raises; bad_words: extract_words raises),
\* or something that is neither
DocxFile(paragraphs) ==
    [kind |-> "docx", paragraphs |-> paragraphs, pages |-> <<>>,
     bad_chars |-> {}, bad_words |-> {}]
PdfFile(pp, bc, bw) ==
    [kind |-> "pdf", paragraphs |-> <<>>, pages |-> pp,
     bad_chars |-> bc, bad_words |-> bw]
OtherFile ==
    [kind |-> "other", paragraphs |-> <<>>, pages |-> <<>>,
     bad_chars |-> {}, bad_words |-> {}]

\* DocxReader.read: any error is re-raised as
\* Exception("Error reading DOCX file: ...")
DocxReadFile(f) ==
    IF f.kind = "docx"
    THEN [ok |-> TRUE, error |-> "none", text |-> DocxRead(f.paragraphs),
          reader |-> PdfReaderInit, stage |-> "none"]
    ELSE [ok |-> FALSE, error |-> "ReadFailure", text |-> <<>>,
          reader |-> PdfReaderInit, stage |-> "open"]

\* PdfReader.read on a fresh instance: nothing is caught, so an error of
\* pdfplumber.open, page.chars or page.extract_words leaves read as it is
\* raised; `reader` is the instance's font_sizes / header_sizes afterwards
PdfReadFile(f) ==
    IF f.kind # "pdf"
    THEN [ok |-> FALSE, error |-> "UnderlyingError", text |-> <<>>,
          reader |-> PdfReaderInit, stage |-> "open"]
    ELSE IF f.bad_chars # {}
    THEN [ok |-> FALSE, error |-> "UnderlyingError", text |-> <<>>,
          reader |-> PdfReaderInit, stage |-> "chars"]
    ELSE IF f.bad_words # {}
    THEN [ok |-> FALSE, error |-> "UnderlyingError", text |-> <<>>,
          reader |-> AnalyzeFontSizes(f.pages), stage |-> "words"]
    ELSE [ok |-> TRUE, error |-> "none", text |-> PdfRead(f.pages),
          reader |-> AnalyzeFontSizes(f.pages), stage |-> "none"]

\* reader.read(input_path) for an instance of class cls
ReadWith(cls, f) ==
    IF cls = "DocxReader" THEN DocxReadFile(f) ELSE PdfReadFile(f)

\* the ways MarkdownWriter.write can go: no error, open() fails, or the
\* write or close fails after k characters have reached the file
NoWriteFault == [kind |-> "none", k |-> 0]
OpenFault    == [kind |-> "open", k |-> 0]
WriteFault(k) == [kind |-> "write", k |-> k]

Prefix(t, k) == SubSeq(t, 1, IF k < Len(t) THEN k ELSE Len(t))

\* Variant of MarkdownWrite: the file is opened in append mode.
MarkdownWriteAppend(fs, output_path, text, wf) ==
    LET old == IF fs[output_path].exists THEN fs[output_path].data ELSE <<>>
    IN
    IF wf.kind = "open"
    THEN [files |-> fs, outcome |-> "WriteFailure", opened |-> FALSE]
    ELSE IF wf.kind = "write"
    THEN [files |-> [fs EXCEPT ![output_path] =
                        [exists |-> TRUE, data |-> old \o Prefix(text, wf.k)]],
          outcome |-> "WriteFailure", opened |-> TRUE]
    ELSE [files |-> [fs EXCEPT ![output_path] =
                        [exists |-> TRUE, data |-> old \o text]],
          outcome |-> "ok", opened |-> TRUE]

\* MarkdownWriter.write: open(output_path, 'w') creates or truncates the
\* file, f.write and the close put the content there; any error is re-raised
\* as Exception("Error writing Markdown file: ...") and nothing is removed
MarkdownWrite(fs, output_path, text, wf) ==
    IF wf.kind = "open"
    THEN [files |-> fs, outcome |-> "WriteFailure", opened |-> FALSE]
    ELSE IF wf.kind = "write"
    THEN [files |-> [fs EXCEPT ![output_path] =
                        [exists |-> TRUE, data |-> Prefix(text, wf.k)]],
          outcome |-> "WriteFailure", opened |-> TRUE]
    ELSE [files |-> [fs EXCEPT ![output_path] =
                        [exists |-> TRUE, data |-> text]],
          outcome |-> "ok", opened |-> TRUE]

(***************************************************************************)
(* Spec: one DocumentConverter, its registrations and convert calls.       *)
(***************************************************************************)
MaxPartial == 1   \* most characters a failed write leaves in the file

PathA == <<"a",".","d","o","c","x">>
PathB == <<"b",".","p","d","f">>
PathC == <<"c",".","P","D","F">>
PathD == <<"d",".","p","d","f">>
PathE == <<"e",".","p","d","f">>
PathF == <<"f",".","t","x","t">>
PathG == <<"g">>

PathO == <<"o",".","m","d">>
PathQ == <<"q",".","p","d","f">>

InputPaths == { PathA, PathB, PathC, PathD, PathE, PathF, PathG }
OutputPaths == { PathO, PathQ }

PdfWordOf(t, z) ==
    [text |-> t, size |-> z, fontname |-> FontArial,
     stroking_color |-> NoColor, top |-> 0, bottom |-> 100]

\* two pages, sizes 120 and 100
PdfPagesA == << << PdfWordOf(<<"a">>, 120) >>, << PdfWordOf(<<"b">>, 100) >> >>
\* one page, sizes 180, 160, 140 and 120
PdfPagesB == << << PdfWordOf(<<"a">>, 180), PdfWordOf(<<"b">>, 160),
                   PdfWordOf(<<"c">>, 140), PdfWordOf(<<"d">>, 120) >> >>

\* the content of the input files
InputFile(path) ==
    CASE path = PathA -> DocxFile(<< ParaBold >>)
      [] path = PathB -> PdfFile(PdfPagesA, {}, {})
      [] path = PathC -> PdfFile(PdfPagesB, {}, {})
      [] path = PathD -> PdfFile(PdfPagesA, {}, {2})
      [] path = PathE -> PdfFile(PdfPagesA, {2}, {})
      [] OTHER        -> OtherFile

ReaderClasses == { "DocxReader", "PdfReader" }
WriterClasses == { "MarkdownWriter" }

\* the extensions register_reader / register_writer are called with
ReaderExtensions == { ExtTxt }
WriterExtensions == { ExtPdf }

WriteFaults ==
    { NoWriteFault, OpenFault } \cup { WriteFault(k) : k \in 0..MaxPartial }

\* reader.read(input_path) for each reader class and input file
ReadResult ==
    [c \in ReaderClasses |-> [i \in InputPaths |-> ReadWith(c, InputFile(i))]]

\* Path(p).suffix.lower() of every path convert is called with
ExtTable == [p \in InputPaths \cup OutputPaths |-> ExtOf(p)]

NoCall ==
    [input |-> <<>>, output |-> <<>>, outcome |-> "none",
     reader_class |-> "none", writer_class |-> "none",
     read_stage |-> "none", output_opened |-> FALSE, text |-> <<>>]

\* DocumentConverter.__init__
Init ==
    /\ IdleDocx /\ IdlePdf /\ IdleConc
    /\ readers = [k \in {ExtDocx, ExtPdf} |->
                     IF k = ExtDocx THEN "DocxReader" ELSE "PdfReader"]
    /\ writers = [k \in {ExtMd} |-> "MarkdownWriter"]
    /\ files = [p \in OutputPaths |-> [exists |-> FALSE, data |-> <<>>]]
    /\ reader = PdfReaderInit
    /\ last = NoCall
    /\ converted = {}

\* DocumentConverter.register_reader
RegisterReader(extension, cls) ==
    /\ readers' = [k \in DOMAIN readers \cup {extension} |->
                      IF k = extension THEN cls ELSE readers[k]]
    /\ UNCHANGED <<writers, files, reader, last, converted>>
    /\ UNCHANGED <<docxVars, pdfVars, concVars>>

\* DocumentConverter.register_writer
RegisterWriter(extension, cls) ==
    /\ writers' = [k \in DOMAIN writers \cup {extension} |->
                      IF k = extension THEN cls ELSE writers[k]]
    /\ UNCHANGED <<readers, files, reader, last, converted>>
    /\ UNCHANGED <<docxVars, pdfVars, concVars>>

\* DocumentConverter.convert; wf is what happens to the write when it is
\* reached
Convert(input_path, output_path) ==
    LET input_ext  == ExtTable[input_path]
        output_ext == ExtTable[output_path]
        check      == CheckFormats(input_ext, output_ext)
    IN
    /\ IF check # "ok"
       THEN /\ last' = [NoCall EXCEPT !.input = input_path,
                                      !.output = output_path,
                                      !.outcome = check]
            /\ UNCHANGED <<files, reader, converted>>
       ELSE LET rd == ReadResult[readers[input_ext]][input_path] IN
            /\ reader' = IF readers[input_ext] = "PdfReader"
                         THEN rd.reader ELSE reader
            /\ IF ~rd.ok
               THEN /\ last' = [input |-> input_path,
                                output |-> output_path,
                                outcome |-> rd.error,
                                reader_class |-> readers[input_ext],
                                writer_class |-> writers[output_ext],
                                read_stage |-> rd.stage,
                                output_opened |-> FALSE,
                                text |-> <<>>]
                    /\ UNCHANGED <<files, converted>>
               ELSE \E wf \in WriteFaults :
                    LET w == MarkdownWrite(files, output_path, rd.text, wf)
                    IN  /\ last' = [input |-> input_path,
                                    output |-> output_path,
                                    outcome |-> w.outcome,
                                    reader_class |-> readers[input_ext],
                                    writer_class |-> writers[output_ext],
                                    read_stage |-> "done",
                                    output_opened |-> w.opened,
                                    text |-> rd.text]
                        /\ files' = w.files
                        /\ converted' =
                              IF w.outcome = "ok"
                              THEN converted \cup
                                   {[input |-> input_path, text |-> rd.text]}
                              ELSE converted
    /\ UNCHANGED <<readers, writers>>
    /\ UNCHANGED <<docxVars, pdfVars, concVars>>

Next ==
    \/ \E x \in ReaderExtensions, c \in ReaderClasses : RegisterReader(x, c)
    \/ \E x \in WriterExtensions, c \in WriterClasses : RegisterWriter(x, c)
    \/ \E i \in InputPaths, o \in OutputPaths : Convert(i, o)

Spec == Init /\ [][Next]_vars

(***************************************************************************)
(* Properties of DocumentConverter.convert (checked under Spec)            *)
(***************************************************************************)
\* the step did no I/O: no reader or writer was constructed, the input was
\* not opened and no output file was created, truncated or changed
NoIO ==
    /\ last'.reader_class = "none"
    /\ last'.writer_class = "none"
    /\ last'.read_stage = "none"
    /\ ~last'.output_opened
    /\ files' = files
    /\ reader' = reader

\* the lower-cased extension of each path: the part of the name from its
\* last dot on
LowerSuffix ==
    [p \in InputPaths \cup OutputPaths |->
        IF \E k \in 2..(Len(p) - 1) : p[k] = "."
        THEN LET d == CHOOSE k \in 2..(Len(p) - 1) :
                        p[k] = "." /\ \A j \in (k + 1)..Len(p) : p[j] # "."
             IN  [n \in 1..(Len(p) - d + 1) |-> LowerChar(p[d + n - 1])]
        ELSE <<>>]

\* C1: a convert call whose lower-cased input extension is no reader key
\* fails with UnsupportedInputFormat; otherwise one whose lower-cased output
\* extension is no writer key fails with UnsupportedOutputFormat; both
\* before any I/O.
C1_UnsupportedBeforeIO ==
    [][ \A i \in InputPaths, o \in OutputPaths :
          (last'.input = i /\ last'.output = o /\ Convert(i, o)) =>
            /\ LowerSuffix[i] \notin DOMAIN readers =>
                  (last'.outcome = "UnsupportedInputFormat" /\ NoIO)
            /\ (LowerSuffix[i] \in DOMAIN readers
                  /\ LowerSuffix[o] \notin DOMAIN writers) =>
                  (last'.outcome = "UnsupportedOutputFormat" /\ NoIO)
      ]_vars

\* convert of f.txt was refused as UnsupportedInputFormat while an output
\* file written earlier is in place
C1_Witness ==
    /\ last.input = PathF
    /\ last.outcome = "UnsupportedInputFormat"
    /\ last.reader_class = "none"
    /\ files[PathO].exists

IsPrefixOf(a, b) == Len(a) <= Len(b) /\ SubSeq(b, 1, Len(a)) = a

\* C7 as claimed: after a convert that ended in WriteFailure no file exists
\* at its output path.
C7_NoFileAfterWriteFailure ==
    last.outcome = "WriteFailure" => ~files[last.output].exists

\* C7 amended: when the write fails after a successful read, convert ends in
\* WriteFailure and removes nothing: if open failed the output files are as
\* before the call; if the target was already created or truncated, a file
\* exists at the output path and holds a prefix of the content.
C7_WriteFailureLeavesFile ==
    [][ \A i \in InputPaths, o \in OutputPaths :
          (last'.input = i /\ last'.output = o /\ last'.read_stage = "done"
             /\ last'.outcome # "ok" /\ Convert(i, o)) =>
            /\ last'.outcome = "WriteFailure"
            /\ IF last'.output_opened
               THEN /\ files'[o].exists
                    /\ IsPrefixOf(files'[o].data, last'.text)
                    /\ \A p \in OutputPaths \ {o} : files'[p] = files[p]
               ELSE files' = files
      ]_vars

\* a write has failed after the target was truncated and one character of a
\* longer content was written: the file is there
C7_Witness ==
    /\ last.outcome = "WriteFailure"
    /\ last.output_opened
    /\ files[last.output].exists
    /\ Len(files[last.output].data) < Len(last.text)

\* C9 as claimed: an error of the extraction layer during PdfReader.read
\* (in the font survey or in the layout pass) ends convert in a ReadFailure,
\* with no text returned and the writer not invoked.
C9_PdfErrorIsReadFailure ==
    (last.reader_class = "PdfReader" /\ last.read_stage \in {"chars", "words"})
        => /\ last.outcome = "ReadFailure"
           /\ last.text = <<>>
           /\ ~last.output_opened

\* what does hold of such a call: it ends in an error, returns no text and
\* leaves every output file as it was
PdfErrorLeavesOutput ==
    [][ \A i \in InputPaths, o \in OutputPaths :
          (last'.input = i /\ last'.output = o
             /\ last'.read_stage \in {"open", "chars", "words"}
             /\ Convert(i, o)) =>
            /\ last'.outcome \in {"ReadFailure", "UnderlyingError"}
            /\ last'.text = <<>>
            /\ ~last'.output_opened
            /\ files' = files
      ]_vars

MaxChunks == 2    \* chunks per content

Calls == {1, 2}

PathP == <<"p",".","m","d">>
ConcPaths == { PathO, PathP }
ConcTexts == SeqsUpTo({"a", "b"}, MaxChunks)

\* what fills a gap when a write lands beyond the end of the file
Nul == "NUL"

\* Variant of OpenForWrite: the file is opened without truncation.
OpenNoTruncate(f) ==
    [exists |-> TRUE, data |-> IF f.exists THEN f.data ELSE <<>>]

\* open(output_path, 'w'): the file is created or truncated
OpenForWrite(f) == [exists |-> TRUE, data |-> <<>>]

\* a write of chunk ch at position pos (1-based) of the file
WriteAt(data, pos, ch) ==
    IF pos <= Len(data) THEN [data EXCEPT ![pos] = ch]
    ELSE data \o Rep(Nul, pos - Len(data) - 1) \o <<ch>>

InitConc ==
    /\ IdleDocx /\ IdlePdf
    /\ readers = <<>> /\ writers = <<>>
    /\ reader = PdfReaderInit /\ last = <<>> /\ converted = {}
    /\ files = [p \in ConcPaths |-> [exists |-> FALSE, data |-> <<>>]]
    /\ call_path \in [Calls -> ConcPaths]
    /\ call_text \in [Calls -> ConcTexts]
    /\ call_pc = [c \in Calls |-> "ready"]
    /\ call_off = [c \in Calls |-> 0]
    /\ finished = <<>>
    /\ overlapped = FALSE

concRest == <<docxVars, pdfVars, readers, writers, reader, last, converted,
              call_path, call_text>>

\* `with open(output_path, 'w', encoding='utf-8') as f` of call c
ConcOpen(c) ==
    /\ call_pc[c] = "ready"
    /\ files' = [files EXCEPT ![call_path[c]] = OpenForWrite(@)]
    /\ call_pc' = [call_pc EXCEPT ![c] = "writing"]
    /\ overlapped' = (overlapped \/
                        \E d \in Calls \ {c} :
                            /\ call_pc[d] = "writing"
                            /\ call_path[d] = call_path[c])
    /\ UNCHANGED <<call_off, finished>>
    /\ UNCHANGED concRest

\* one chunk of `f.write(content)` of call c reaches the file
ConcWriteChunk(c) ==
    /\ call_pc[c] = "writing"
    /\ call_off[c] < Len(call_text[c])
    /\ files' = [files EXCEPT ![call_path[c]].data =
                     WriteAt(@, call_off[c] + 1, call_text[c][call_off[c] + 1])]
    /\ call_off' = [call_off EXCEPT ![c] = @ + 1]
    /\ UNCHANGED <<call_pc, finished, overlapped>>
    /\ UNCHANGED concRest

\* the with block of call c exits: the file is closed, write returns
ConcClose(c) ==
    /\ call_pc[c] = "writing"
    /\ call_off[c] = Len(call_text[c])
    /\ call_pc' = [call_pc EXCEPT ![c] = "done"]
    /\ finished' = Append(finished, c)
    /\ UNCHANGED <<files, call_off, overlapped>>
    /\ UNCHANGED concRest

NextConc ==
    \E c \in Calls : ConcOpen(c) \/ ConcWriteChunk(c) \/ ConcClose(c)

SpecConc == InitConc /\ [][NextConc]_vars

(***************************************************************************)
(* Properties of concurrent writes (checked under SpecConc)                *)
(***************************************************************************)
BothDone == \A c \in Calls : call_pc[c] = "done"

SamePath == call_path[1] = call_path[2]

\* C8 as claimed: once both calls have finished, a shared output file holds
\* exactly the text of the call whose write completed last, and with
\* different output paths each file holds its own call's text.
C8_LastWriterWins ==
    BothDone =>
        IF SamePath
        THEN files[call_path[1]].data = call_text[finished[2]]
        ELSE \A c \in Calls : files[call_path[c]].data = call_text[c]

\* C8 amended: with different output paths each file holds its own call's
\* text; with a shared path the file holds the text of the call that
\* completed last if the two writes did not overlap (one closed before the
\* other opened); if they overlapped, the file is no longer than the longer
\* text and every chunk of it is the chunk one of the two texts has at that
\* position, or a gap left by the other call's truncation.
C8_LastWriterWinsIfNoOverlap ==
    BothDone =>
        IF ~SamePath
        THEN \A c \in Calls : files[call_path[c]].data = call_text[c]
        ELSE LET data == files[call_path[1]].data IN
             /\ ~overlapped => data = call_text[finished[2]]
             /\ \E d \in Calls : Len(data) <= Len(call_text[d])
             /\ \A k \in 1..Len(data) :
                    \/ data[k] = Nul
                    \/ \E c \in Calls : /\ k <= Len(call_text[c])
                                        /\ data[k] = call_text[c][k]

\* both calls have finished on a shared path with overlapping writes and
\* the file holds neither call's text
C8_Witness ==
    /\ BothDone /\ SamePath /\ overlapped
    /\ \A c \in Calls : files[call_path[1]].data # call_text[c]

(***************************************************************************)
(* SpecRegistry: one DocumentConverter whose register_reader and           *)
(* register_writer are called with extensions in any letter case, with and *)
(* without the leading dot, and convert calls that look the registry up.   *)
(***************************************************************************)
ExtTxtUpper == <<".","T","X","T">>
ExtTxtNoDot == <<"t","x","t">>
ExtPdfUpper == <<".","P","D","F">>
ExtMdUpper  == <<".","M","D">>

\* the extensions register_reader / register_writer are called with
RegistryReaderExtensions == { ExtTxt, ExtTxtUpper, ExtTxtNoDot, ExtPdfUpper }
RegistryWriterExtensions == { ExtMd, ExtMdUpper }

\* the paths convert is called with: c.PDF and f.txt to o.md
RegistryInputPaths == { PathC, PathF }
RegistryOutputPaths == { PathO }

NextRegistry ==
    \/ \E x \in RegistryReaderExtensions, c \in ReaderClasses :
          RegisterReader(x, c)
    \/ \E x \in RegistryWriterExtensions, c \in WriterClasses :
          RegisterWriter(x, c)
    \/ \E i \in RegistryInputPaths, o \in RegistryOutputPaths : Convert(i, o)

SpecRegistry == Init /\ [][NextRegistry]_vars

(***************************************************************************)
(* Properties of the registries (checked under SpecRegistry)               *)
(***************************************************************************)
\* an extension string lower-cased and dot-prefixed
NormalizeExt(x) ==
    IF Len(x) > 0 /\ x[1] = "." THEN Lower(x) ELSE <<".">> \o Lower(x)

\* the normalized form of every extension registered with
NormalizedTable ==
    [x \in RegistryReaderExtensions \cup RegistryWriterExtensions |->
        NormalizeExt(x)]

\* C11 as claimed: after any sequence of register_reader / register_writer
\* calls every key of both registries is lower-cased and dot-prefixed, and
\* after a registration of a class for an extension in any letter case the
\* registry maps the extension that convert derives from a path (the
\* lower-cased suffix) to that class, replacing what was registered before.
C11_RegistryNormalized ==
    /\ [](/\ \A k \in DOMAIN readers : k = NormalizeExt(k)
          /\ \A k \in DOMAIN writers : k = NormalizeExt(k))
    /\ [][ \A x \in RegistryReaderExtensions, c \in ReaderClasses :
             RegisterReader(x, c) =>
               /\ NormalizedTable[x] \in DOMAIN readers'
               /\ readers'[NormalizedTable[x]] = c
         ]_vars
    /\ [][ \A x \in RegistryWriterExtensions, c \in WriterClasses :
             RegisterWriter(x, c) =>
               /\ NormalizedTable[x] \in DOMAIN writers'
               /\ writers'[NormalizedTable[x]] = c
         ]_vars

\* what does hold of a registration: the extension is the key exactly as it
\* was given, the class replaces what that key held, and every other key
\* keeps its class
RegistryKeysAsGiven ==
    /\ [][ \A x \in RegistryReaderExtensions, c \in ReaderClasses :
             RegisterReader(x, c) =>
               /\ DOMAIN readers' = DOMAIN readers \cup {x}
               /\ readers'[x] = c
               /\ \A k \in DOMAIN readers \ {x} : readers'[k] = readers[k]
         ]_vars
    /\ [][ \A x \in RegistryWriterExtensions, c \in WriterClasses :
             RegisterWriter(x, c) =>
               /\ DOMAIN writers' = DOMAIN writers \cup {x}
               /\ writers'[x] = c
               /\ \A k \in DOMAIN writers \ {x} : writers'[k] = writers[k]
         ]_vars

\* DocxReader is registered for ".PDF" and ".TXT", yet convert of c.PDF went
\* to PdfReader, or convert of f.txt found no reader at all
RegistryDispatchMissed ==
    /\ ExtPdfUpper \in DOMAIN readers /\ readers[ExtPdfUpper] = "DocxReader"
    /\ ExtTxtUpper \in DOMAIN readers /\ readers[ExtTxtUpper] = "DocxReader"
    /\ \/ last.input = PathC /\ last.reader_class = "PdfReader"
       \/ last.input = PathF /\ last.outcome = "UnsupportedInputFormat"

(***************************************************************************)
(* SpecPdfLines: PdfReader.read applied to documents whose words carry     *)
(* blanks (extract_words is called with keep_blank_chars=True) and lie on  *)
(* one or two lines of one or two pages.                                   *)
(***************************************************************************)
MaxEmitWords == 3   \* words per document where the texts vary

\* words "a", " " and " a", upright or italic, at top 0 or 100 with height
\* 100, so that two words of one page share a line exactly when their tops
\* are equal
LineWords ==
    { [text |-> x, size |-> None, fontname |-> f, stroking_color |-> NoColor,
       top |-> t, bottom |-> t + 100]
      : x \in { <<"a">>, <<" ">>, <<" ","a">> },
        f \in {FontArial, FontItalic}, t \in {0, 100} }

PdfLineInputs ==
    UNION { PagesOf(ws) : ws \in SeqsUpTo(LineWords, MaxEmitWords) }

InitPdfLines ==
    /\ IdleDocx /\ IdleConv /\ IdleConc
    /\ pages \in PdfLineInputs
    /\ font_sizes = <<>>
    /\ header_sizes = {}
    /\ all_elements = <<>>
    /\ page_no = 0
    /\ word_no = 0
    /\ elements = <<>>
    /\ current_line_y = None
    /\ current_line_elements = <<>>
    /\ elem_no = 0
    /\ markdown_lines = <<>>
    /\ current_line = <<>>
    /\ pdf_result = NoValue
    /\ pdf_pc = "survey"

SpecPdfLines == InitPdfLines /\ [][NextPdf]_vars

(***************************************************************************)
(* Properties of the Markdown emission (checked under SpecPdfLines)        *)
(***************************************************************************)
IsMarker(e) == e.text = <<"\n">>

RECURSIVE SegmentsOf(_, _, _)
\* the runs of word elements between the markers of a flat element sequence
SegmentsOf(es, cur, acc) ==
    IF es = <<>> THEN Append(acc, cur)
    ELSE IF IsMarker(Head(es))
    THEN SegmentsOf(Tail(es), <<>>, Append(acc, cur))
    ELSE SegmentsOf(Tail(es), Append(cur, Head(es)), acc)

\* the rendered texts of a run of word elements, concatenated
LineOf(seg) ==
    Cat([i \in 1..Len(seg) |->
            RenderElement(seg[i], header_sizes, font_sizes)])

HasInk(line) == Strip(line) # <<>>
NotEmpty(line) == line # <<>>

\* the lines of the document as concatenated
RawLines ==
    LET segs == SegmentsOf(all_elements, <<>>, <<>>)
    IN  [i \in 1..Len(segs) |-> LineOf(segs[i])]

\* the lines trimmed, without the empty ones
TrimmedLines ==
    SelectSeq([i \in 1..Len(RawLines) |-> Strip(RawLines[i])], NotEmpty)

\* the lines as concatenated, without the empty and whitespace-only ones
KeptLines == SelectSeq(RawLines, HasInk)

RECURSIVE WordsThrough(_)
\* the number of words on pages 1..p
WordsThrough(p) == IF p = 0 THEN 0 ELSE WordsThrough(p - 1) + Len(pages[p])

\* position in all_elements of the n-th word element
WordPos(n) ==
    CHOOSE k \in 1..Len(all_elements) :
        /\ ~IsMarker(all_elements[k])
        /\ Cardinality({ j \in 1..k : ~IsMarker(all_elements[j]) }) = n

\* between the last word of pages 1..p and the first word after them there
\* is a marker, for every page p that has words before and after its end
PagesNeverShareALine ==
    \A p \in 1..(Len(pages) - 1) :
        (WordsThrough(p) >= 1 /\ WordsThrough(p) < WordsThrough(Len(pages)))
          => \E k \in WordPos(WordsThrough(p))..WordPos(WordsThrough(p) + 1) :
                IsMarker(all_elements[k])

\* C12 as claimed: the text read returns is the lines between the markers,
\* each the rendered words concatenated with no separator and trimmed of
\* leading and trailing whitespace, the empty and whitespace-only lines left
\* out, joined in order with one blank line between consecutive lines; and
\* words of different pages never share a line.
C12_LinesTrimmedAndJoined ==
    pdf_pc = "done" =>
        /\ pdf_result = JoinLines(TrimmedLines)
        /\ PagesNeverShareALine

\* what does hold: the same with every kept line as it was concatenated,
\* its leading and trailing whitespace included
LinesKeptUntrimmed ==
    pdf_pc = "done" =>
        /\ pdf_result = JoinLines(KeptLines)
        /\ PagesNeverShareALine

\* read has returned a text that begins with a blank: the line " a" was
\* kept with its leading whitespace
LineKeptWithLeadingBlank ==
    /\ pdf_pc = "done"
    /\ Len(pdf_result) >= 2
    /\ pdf_result[1] = " "
    /\ \E i \in 1..Len(pages) : Len(pages[i]) >= 1

====
